---- MODULE Spec2Model ----
\* Grade report generation (lms/djangoapps/instructor_task/tasks_helper/grades.py):
\* CourseGradeReport, ProblemGradeReport and ProblemResponses, each modelled as a
\* sequential run over a course configuration and a population of enrolled users.
EXTENDS Integers, Sequences, FiniteSets, TLC

\* ---------------------------------------------------------------- bounds

\* Largest number of assignment categories of a course configuration.
MaxCategories == 2
\* Largest number of graded subsections of one category.
MaxSubsections == 2
\* Largest number of random (experiment) user partitions of a course.
MaxExperiments == 1
\* Largest number of users enrolled in a course of a CourseGradeReport run.
MaxUsers == 2
\* Largest number of students enrolled in a course of a ProblemGradeReport run.
MaxStudents == 100
\* Largest number of rows list_problem_responses returns.
MaxResponses == 3

\* ---------------------------------------------------------------- program constants

\* grouper(iterable, chunk_size=1, fillvalue=None): the batch size.
chunk_size == 1
\* ProblemGradeReport.generate: status_interval = 100.
status_interval == 100
\* ProblemResponses.generate: num_reports = 1.
num_reports == 1

\* ---------------------------------------------------------------- values

\* A cell of a report row: a Python value tagged with its type.
Str(s) == [t |-> "str", v |-> s]
Num(n) == [t |-> "num", v |-> n]
None == [t |-> "None", v |-> "None"]

\* Left fold helpers over sequences.
RECURSIVE Flatten(_)
Flatten(ss) == IF ss = <<>> THEN <<>> ELSE Head(ss) \o Flatten(Tail(ss))

\* OrderedDict as a sequence of [key, value] items in insertion order.
DictKeys(d) == [i \in 1..Len(d) |-> d[i].key]
DictValues(d) == [i \in 1..Len(d) |-> d[i].value]
DictHas(d, k) == \E i \in 1..Len(d) : d[i].key = k
DictGet(d, k) == d[CHOOSE i \in 1..Len(d) : d[i].key = k].value
\* d[k] = v: a new key is appended, an existing key keeps its position.
DictSet(d, k, v) ==
    IF DictHas(d, k)
    THEN [i \in 1..Len(d) |-> IF d[i].key = k THEN [key |-> k, value |-> v] ELSE d[i]]
    ELSE Append(d, [key |-> k, value |-> v])

\* ---------------------------------------------------------------- course configuration

\* Names the bounded configurations are built from.
CategoryNames == <<"Homework", "Exam", "Lab">>
CategoryLetters == <<"H", "E", "L">>
ExperimentNames == <<"Exp A", "Exp B">>
CourseIds == {"course-v1:edX+Demo+2017"}

\* subsection_info of the j-th graded subsection of the category named c.
SubsectionInfo(c, j) ==
    [subsection_block |->
        [location |-> "block-v1:" \o CategoryLetters[c] \o ToString(j),
         display_name |-> CategoryLetters[c] \o ToString(j)]]

\* grading_context['all_graded_subsections_by_type'] for the subsection counts ns.
GradingContext(ns) ==
    [c \in 1..Len(ns) |->
        [key |-> CategoryNames[c],
         value |-> [j \in 1..ns[c] |-> SubsectionInfo(c, j)]]]

SubsectionCounts ==
    UNION {[1..k -> 0..MaxSubsections] : k \in 0..MaxCategories}

\* course.user_partitions: e random partitions, and the cohort partition of a
\* cohorted course.
UserPartitions(e, cohorted) ==
    [i \in 1..e |-> [name |-> ExperimentNames[i], scheme |-> "random"]]
    \o (IF cohorted THEN <<[name |-> "Cohorts", scheme |-> "cohort"]>> ELSE <<>>)

\* The course configurations a run may be started on.
Configs ==
    {[course_id |-> cid,
      all_graded_subsections_by_type |-> GradingContext(ns),
      is_cohorted |-> co,
      course |-> [teams_enabled |-> te, user_partitions |-> UserPartitions(e, co)]] :
        cid \in CourseIds, ns \in SubsectionCounts, co \in BOOLEAN,
        te \in BOOLEAN, e \in 0..MaxExperiments}

\* ---------------------------------------------------------------- schema derivation

\* The inner loop numbering the subsections from 0 (enumerate without start=1).
RECURSIVE GradedSubsectionsMap_ZeroBased(_, _, _, _)
GradedSubsectionsMap_ZeroBased(assignment_type_name, subsection_infos, subsection_index, acc) ==
    IF subsection_index > Len(subsection_infos) THEN acc
    ELSE LET subsection == subsection_infos[subsection_index].subsection_block
             header_name == assignment_type_name \o " " \o ToString(subsection_index - 1)
                            \o ": " \o subsection.display_name
         IN GradedSubsectionsMap_ZeroBased(assignment_type_name, subsection_infos,
                subsection_index + 1, DictSet(acc, subsection.location, header_name))

\* The inner loop of graded_assignments: header of each subsection, keyed by location.
RECURSIVE GradedSubsectionsMap(_, _, _, _)
GradedSubsectionsMap(assignment_type_name, subsection_infos, subsection_index, acc) ==
    IF subsection_index > Len(subsection_infos) THEN acc
    ELSE LET subsection == subsection_infos[subsection_index].subsection_block
             header_name == assignment_type_name \o " " \o ToString(subsection_index)
                            \o ": " \o subsection.display_name
         IN GradedSubsectionsMap(assignment_type_name, subsection_infos,
                subsection_index + 1, DictSet(acc, subsection.location, header_name))

\* separate_subsection_avg_headers = len(subsection_infos) >= 1
SeparateSubsectionAvgHeaders_AtLeastOne(subsection_infos) == Len(subsection_infos) >= 1

\* separate_subsection_avg_headers = len(subsection_infos) > 1
SeparateSubsectionAvgHeaders(subsection_infos) == Len(subsection_infos) > 1

\* The entry of graded_assignments_map for one assignment type.
AssignmentInfo(assignment_type_name, subsection_infos) ==
    LET separate == SeparateSubsectionAvgHeaders(subsection_infos)
    IN [subsection_headers |->
            GradedSubsectionsMap(assignment_type_name, subsection_infos, 1, <<>>),
        average_header |->
            IF separate THEN assignment_type_name \o " (Avg)" ELSE assignment_type_name,
        separate_subsection_avg_headers |-> separate]

\* CourseGradeReportContext.graded_assignments, from the grading ctx.
RECURSIVE GradedAssignmentsMap(_, _, _)
GradedAssignmentsMap(by_type, i, acc) ==
    IF i > Len(by_type) THEN acc
    ELSE GradedAssignmentsMap(by_type, i + 1,
            DictSet(acc, by_type[i].key, AssignmentInfo(by_type[i].key, by_type[i].value)))

GradedAssignments(by_type) == GradedAssignmentsMap(by_type, 1, <<>>)

\* The headers one assignment_info contributes to _grades_header.
AssignmentHeaders(assignment_info) ==
    (IF assignment_info.separate_subsection_avg_headers
     THEN DictValues(assignment_info.subsection_headers) ELSE <<>>)
    \o <<assignment_info.average_header>>

\* CourseGradeReport._grades_header over the memoized graded_assignments.
GradesHeader(graded_assignments) ==
    Flatten([i \in 1..Len(graded_assignments) |->
                AssignmentHeaders(graded_assignments[i].value)])

\* get_split_user_partitions: the partitions of the random scheme.
GetSplitUserPartitions(user_partitions) ==
    SelectSeq(user_partitions, LAMBDA p : p.scheme = "random")

\* CourseGradeReport._success_headers, over the property values the context holds.
SuccessHeaders(ctx) ==
    <<"Student ID", "Email", "Username", "Grade">>
    \o GradesHeader(ctx.graded_assignments)
    \o (IF ctx.cohorts_enabled THEN <<"Cohort Name">> ELSE <<>>)
    \o [i \in 1..Len(ctx.course_experiments) |->
            "Experiment Group (" \o ctx.course_experiments[i].name \o ")"]
    \o (IF ctx.teams_enabled THEN <<"Team Name">> ELSE <<>>)
    \o <<"Enrollment Track", "Verification Status">>
    \o <<"Certificate Eligible", "Certificate Delivered", "Certificate Type">>

\* CourseGradeReport._error_headers
ErrorHeaders == <<"Student ID", "Username", "Error">>

\* ---------------------------------------------------------------- entities and collaborators

\* A django User row; ids start at 1.
User(i) == [id |-> i, email |-> "u" \o ToString(i) \o "@example.com",
            username |-> "u" \o ToString(i)]

\* CourseEnrollment.objects.users_enrolled_in for a course with n enrolments.
UsersEnrolledIn(n) == [i \in 1..n |-> User(i)]

\* The filler izip_longest pads the last batch with (fillvalue=None).
fillvalue == [id |-> 0, email |-> "None", username |-> "None"]

\* grouper in _batch_users: izip_longest over chunk_size references to one iterator.
Grouper(iterable, size, fill) ==
    [b \in 1..((Len(iterable) + size - 1) \div size) |->
        [k \in 1..size |->
            IF (b - 1) * size + k <= Len(iterable)
            THEN iterable[(b - 1) * size + k] ELSE fill]]

\* Scores are floats; the model keeps them as hundredths.
Ratio(earned, possible) == (earned * 100) \div possible

\* What CourseGradeFactory().iter may yield for one user: no grade with an error
\* message, or one of two course grades.
Outcomes == {"error", "complete", "sparse"}

Odd(i) == i % 2 = 1

\* The course grade of an outcome, over the course's grading context: "complete"
\* has every subsection attempted and a breakdown entry for every category;
\* "sparse" has only the odd categories and, in them, only the odd subsections,
\* none attempted, and breakdown entries for the even categories only.
CourseGradeOf(outcome, by_type) ==
    LET cats == IF outcome = "complete" THEN 1..Len(by_type)
                ELSE {c \in 1..Len(by_type) : Odd(c)}
        subs(c) == IF outcome = "complete" THEN 1..Len(by_type[c].value)
                   ELSE {j \in 1..Len(by_type[c].value) : Odd(j)}
        bcats == IF outcome = "complete" THEN 1..Len(by_type)
                 ELSE {c \in 1..Len(by_type) : ~Odd(c)}
        catOf(name) == CHOOSE c \in 1..Len(by_type) : by_type[c].key = name
        subOf(c, loc) == CHOOSE j \in 1..Len(by_type[c].value) :
                            by_type[c].value[j].subsection_block.location = loc
    IN [percent |-> IF outcome = "complete" THEN 75 ELSE 0,
        letter_grade |-> IF outcome = "complete" THEN Str("Pass") ELSE None,
        graded_subsections_by_format |->
            [name \in {by_type[c].key : c \in cats} |->
                [loc \in {by_type[catOf(name)].value[j].subsection_block.location :
                            j \in subs(catOf(name))} |->
                    [graded_total |->
                        [earned |-> subOf(catOf(name), loc),
                         possible |-> 4,
                         first_attempted |->
                            IF outcome = "complete" THEN Str("2017-03-01") ELSE None]]]],
        grader_result |->
            [grade_breakdown |->
                [name \in {by_type[c].key : c \in bcats} |->
                    [percent |-> 10 * catOf(name) + 1]]]]

\* CourseGradeFactory().iter: one (user, course_grade, err_msg) per user, in order.
GradeResult(user, outcome, by_type) ==
    IF outcome = "error"
    THEN [user |-> user, has_grade |-> FALSE,
          course_grade |-> CourseGradeOf("sparse", <<>>),
          err_msg |-> "Cannot grade " \o user.username]
    ELSE [user |-> user, has_grade |-> TRUE,
          course_grade |-> CourseGradeOf(outcome, by_type), err_msg |-> ""]

\* Group, team, enrolment and certificate lookups, fixed per user id.
GetCohort(user) == IF user.id = 1 THEN Str("Cohort A") ELSE None
GetGroup(user, partition) == IF Odd(user.id) THEN Str("Group 1 of " \o partition.name) ELSE None
TeamMembership(user) == IF user.id = 2 THEN Str("Team X") ELSE None
EnrollmentMode(user) == IF Odd(user.id) THEN "verified" ELSE "audit"
VerificationStatus(user, mode) == IF mode = "verified" THEN "ID Verified" ELSE "N/A"
CertificateWhitelist == {2}
CertificateInfoForUser(user, letter_grade, whitelisted) ==
    IF whitelisted \/ letter_grade # None
    THEN <<Str("Y"), Str("N"), Str("honor")>>
    ELSE <<Str("N"), Str("N"), Str("N/A")>>

\* ---------------------------------------------------------------- row compilation

\* The grade result of one subsection column (the try/except/else of the loop).
SubsectionResult(course_grade, assignment_type, subsection_location) ==
    LET by_format == course_grade.graded_subsections_by_format
    IN IF assignment_type \notin DOMAIN by_format
          \/ subsection_location \notin DOMAIN by_format[assignment_type]
       THEN Str("Not Available")
       ELSE LET graded_total == by_format[assignment_type][subsection_location].graded_total
            IN IF graded_total.first_attempted # None
               THEN Num(Ratio(graded_total.earned, graded_total.possible))
               ELSE Str("Not Attempted")

\* grade_breakdown.get(assignment_type, {}).get('percent')
AssignmentAverage(course_grade, assignment_type) ==
    LET grade_breakdown == course_grade.grader_result.grade_breakdown
    IN IF assignment_type \in DOMAIN grade_breakdown
       THEN Num(grade_breakdown[assignment_type].percent) ELSE None

\* The values one assignment type contributes to _user_grade_results.
AssignmentResults(course_grade, assignment_type, assignment_info) ==
    [j \in 1..Len(assignment_info.subsection_headers) |->
        SubsectionResult(course_grade, assignment_type,
                         assignment_info.subsection_headers[j].key)]
    \o (IF assignment_info.separate_subsection_avg_headers
        THEN <<AssignmentAverage(course_grade, assignment_type)>> ELSE <<>>)

\* CourseGradeReport._user_grade_results
UserGradeResults(course_grade, graded_assignments) ==
    <<Num(course_grade.percent)>>
    \o Flatten([i \in 1..Len(graded_assignments) |->
                AssignmentResults(course_grade, graded_assignments[i].key,
                                  graded_assignments[i].value)])

\* CourseGradeReport._user_cohort_group_names
UserCohortGroupNames(user, cohorts_enabled) ==
    IF cohorts_enabled
    THEN <<IF GetCohort(user) # None THEN GetCohort(user) ELSE Str("")>>
    ELSE <<>>

\* CourseGradeReport._user_experiment_group_names
UserExperimentGroupNames(user, course_experiments) ==
    [i \in 1..Len(course_experiments) |->
        IF GetGroup(user, course_experiments[i]) # None
        THEN GetGroup(user, course_experiments[i]) ELSE Str("")]

\* CourseGradeReport._user_team_names
UserTeamNames(user, teams_enabled) ==
    IF teams_enabled
    THEN <<IF TeamMembership(user) # None THEN TeamMembership(user) ELSE Str("")>>
    ELSE <<>>

\* CourseGradeReport._user_verification_mode
UserVerificationMode(user) ==
    <<Str(EnrollmentMode(user)), Str(VerificationStatus(user, EnrollmentMode(user)))>>

\* CourseGradeReport._user_certificate_info
UserCertificateInfo(user, course_grade, whitelisted_user_ids) ==
    CertificateInfoForUser(user, course_grade.letter_grade,
                           user.id \in whitelisted_user_ids)

\* The success row of one graded user (the else branch of _rows_for_users), over
\* the property values the context holds.
SuccessRow(user, course_grade, ctx) ==
    <<Num(user.id), Str(user.email), Str(user.username)>>
    \o UserGradeResults(course_grade, ctx.graded_assignments)
    \o UserCohortGroupNames(user, ctx.cohorts_enabled)
    \o UserExperimentGroupNames(user, ctx.course_experiments)
    \o UserTeamNames(user, ctx.teams_enabled)
    \o UserVerificationMode(user)
    \o UserCertificateInfo(user, course_grade, CertificateWhitelist)

\* The error row of one user whose grade is absent.
ErrorRow(user, err_msg) == <<Num(user.id), Str(user.username), Str(err_msg)>>

\* _rows_for_users with the error branch dropping the row of an ungraded user.
RowsForUsers_DropErrors(results, ctx) ==
    LET ok == SelectSeq(results, LAMBDA r : r.has_grade)
    IN [success_rows |->
            [i \in 1..Len(ok) |-> SuccessRow(ok[i].user, ok[i].course_grade, ctx)],
        error_rows |-> <<>>]

\* _rows_for_users over the grade results of one batch: (success_rows, error_rows).
RowsForUsers(results, ctx) ==
    LET ok == SelectSeq(results, LAMBDA r : r.has_grade)
        bad == SelectSeq(results, LAMBDA r : ~r.has_grade)
    IN [success_rows |->
            [i \in 1..Len(ok) |-> SuccessRow(ok[i].user, ok[i].course_grade, ctx)],
        error_rows |-> [i \in 1..Len(bad) |-> ErrorRow(bad[i].user, bad[i].err_msg)]]

\* ---------------------------------------------------------------- state

VARIABLES
    run,             \* which generate() was invoked: "course", "problem" or "responses"
    pc,              \* the run's position
    config,          \* the course configuration the collaborators answer from
    enrolled,        \* number of users enrolled in the course
    clock,           \* datetime.now(UTC): grows with every reading
    context,         \* CourseGradeReportContext: memoized lazy properties
    calls,           \* number of calls (reads, for course.teams_enabled) made to each
                     \* configuration collaborator
    ga_reads,        \* the graded_assignments values header and row derivation have read
    task_progress,   \* TaskProgress counters
    statuses,        \* progress snapshots sent through update_task_state, in order
    success_headers, \* _generate's success_headers
    next_batch,      \* index of the next batch _batched_rows will yield
    batched_rows,    \* the (success_rows, error_rows) pairs _batched_rows has yielded
    outcomes,        \* the grade outcome of every user graded so far, in order
    success_rows,    \* _compile's success_rows
    error_rows,      \* _compile's error_rows
    uploads,         \* calls of upload_csv_to_report_store, in order
    n_rows,          \* ProblemGradeReport / ProblemResponses: len(rows)
    n_error_rows     \* ProblemGradeReport: len(error_rows)

vars == <<run, pc, config, enrolled, clock, context, calls, ga_reads, task_progress, statuses, success_headers, next_batch, batched_rows, outcomes, success_rows, error_rows, uploads, n_rows, n_error_rows>>

\* TaskProgress.__init__: every counter starts at 0.
TaskProgress(total) ==
    [total |-> total, attempted |-> 0, succeeded |-> 0, skipped |-> 0, failed |-> 0]

\* TaskProgress.update_task_state: the snapshot handed to the status sink.
Snapshot(progress, step) ==
    [step |-> step, total |-> progress.total, attempted |-> progress.attempted,
     succeeded |-> progress.succeeded, skipped |-> progress.skipped,
     failed |-> progress.failed]

\* CourseGradeReportContext.__init__: nothing memoized yet.
NewContext(course_id) ==
    [course_id |-> course_id,
     memo |-> {},
     course |-> [teams_enabled |-> FALSE, user_partitions |-> <<>>],
     course_experiments |-> <<>>,
     teams_enabled |-> FALSE,
     cohorts_enabled |-> FALSE,
     graded_assignments |-> <<>>]

NoCalls ==
    [get_course_by_id |-> 0, get_split_user_partitions |-> 0,
     course_teams_enabled |-> 0, is_course_cohorted |-> 0,
     grading_context_for_course |-> 0]

\* The configuration ProblemGradeReport and ProblemResponses runs are started on.
DefaultConfig ==
    [course_id |-> "course-v1:edX+Demo+2017",
     all_graded_subsections_by_type |-> GradingContext(<<2, 1>>),
     is_cohorted |-> FALSE,
     course |-> [teams_enabled |-> FALSE, user_partitions |-> UserPartitions(0, FALSE)]]

Init ==
    /\ run \in {"course", "problem", "responses"}
    /\ pc = "start"
    /\ \/ run = "course" /\ config \in Configs /\ enrolled \in 0..MaxUsers
       \/ run = "problem" /\ config = DefaultConfig /\ enrolled \in 0..MaxStudents
       \/ run = "responses" /\ config = DefaultConfig /\ enrolled \in 0..MaxResponses
    /\ clock = 0
    /\ context = NewContext(config.course_id)
    /\ calls = NoCalls
    /\ ga_reads = {}
    /\ task_progress = TaskProgress(None)
    /\ statuses = <<>>
    /\ success_headers = <<>>
    /\ next_batch = 1
    /\ batched_rows = <<>>
    /\ outcomes = <<>>
    /\ success_rows = <<>>
    /\ error_rows = <<>>
    /\ uploads = <<>>
    /\ n_rows = 0
    /\ n_error_rows = 0

\* ---------------------------------------------------------------- lazy properties

\* A plain property: nothing is kept, every access computes again.
Memoized_Never(s, name) == FALSE

\* A lazy property's value is computed on the first access and kept in the
\* instance; s is [context, calls].
Memoized(s, name) == name \in s.context.memo

\* context.course
LazyCourse(s) ==
    IF Memoized(s, "course") THEN s
    ELSE [context |-> [s.context EXCEPT !.memo = @ \cup {"course"},
                                        !.course = config.course],
          calls |-> [s.calls EXCEPT !.get_course_by_id = @ + 1]]

\* context.course_experiments
LazyCourseExperiments(s) ==
    IF Memoized(s, "course_experiments") THEN s
    ELSE LET s1 == LazyCourse(s)
         IN [context |-> [s1.context EXCEPT
                            !.memo = @ \cup {"course_experiments"},
                            !.course_experiments =
                                GetSplitUserPartitions(s1.context.course.user_partitions)],
             calls |-> [s1.calls EXCEPT !.get_split_user_partitions = @ + 1]]

\* context.teams_enabled
LazyTeamsEnabled(s) ==
    IF Memoized(s, "teams_enabled") THEN s
    ELSE LET s1 == LazyCourse(s)
         IN [context |-> [s1.context EXCEPT
                            !.memo = @ \cup {"teams_enabled"},
                            !.teams_enabled = s1.context.course.teams_enabled],
             calls |-> [s1.calls EXCEPT !.course_teams_enabled = @ + 1]]

\* context.cohorts_enabled
LazyCohortsEnabled(s) ==
    IF Memoized(s, "cohorts_enabled") THEN s
    ELSE [context |-> [s.context EXCEPT !.memo = @ \cup {"cohorts_enabled"},
                                        !.cohorts_enabled = config.is_cohorted],
          calls |-> [s.calls EXCEPT !.is_course_cohorted = @ + 1]]

\* context.graded_assignments
LazyGradedAssignments(s) ==
    IF Memoized(s, "graded_assignments") THEN s
    ELSE [context |-> [s.context EXCEPT
                        !.memo = @ \cup {"graded_assignments"},
                        !.graded_assignments =
                            GradedAssignments(config.all_graded_subsections_by_type)],
          calls |-> [s.calls EXCEPT !.grading_context_for_course = @ + 1]]

\* The property accesses of _success_headers, in its order.
AccessForHeaders(s) ==
    LazyTeamsEnabled(LazyCourseExperiments(LazyCohortsEnabled(LazyGradedAssignments(s))))

\* The property accesses of one success row of _rows_for_users, in its order; the
\* last is context.course.grade_cutoffs in _user_certificate_info.
AccessForRow(s) ==
    LazyCourse(LazyTeamsEnabled(LazyCourseExperiments(LazyCohortsEnabled(LazyGradedAssignments(s)))))

\* ---------------------------------------------------------------- CourseGradeReport

\* context.update_status(message): the snapshot reaches the status sink.
UpdateStatus(message) == statuses' = Append(statuses, Snapshot(task_progress, message))

\* _generate up to the creation of the batched_rows generator: announces the
\* start and derives the headers; the generator body has not run yet.
Starting ==
    /\ run = "course" /\ pc = "start"
    /\ UpdateStatus("Starting grades")
    /\ LET s == AccessForHeaders([context |-> context, calls |-> calls])
       IN /\ context' = s.context
          /\ calls' = s.calls
          /\ success_headers' = SuccessHeaders(s.context)
          /\ ga_reads' = ga_reads \cup {s.context.graded_assignments}
    /\ pc' = "started"
    /\ UNCHANGED <<run, config, enrolled, clock, task_progress, next_batch, batched_rows, outcomes, success_rows, error_rows, uploads, n_rows, n_error_rows>>

\* The second announcement repeating the first message.
AnnounceCompiling_Repeat ==
    /\ run = "course" /\ pc = "started"
    /\ UpdateStatus("Starting grades")
    /\ pc' = "compiling"
    /\ UNCHANGED <<run, config, enrolled, clock, context, calls, ga_reads, task_progress, success_headers, next_batch, batched_rows, outcomes, success_rows, error_rows, uploads, n_rows, n_error_rows>>

\* context.update_status(u'Compiling grades')
AnnounceCompiling ==
    /\ run = "course" /\ pc = "started"
    /\ UpdateStatus("Compiling grades")
    /\ pc' = "compiling"
    /\ UNCHANGED <<run, config, enrolled, clock, context, calls, ga_reads, task_progress, success_headers, next_batch, batched_rows, outcomes, success_rows, error_rows, uploads, n_rows, n_error_rows>>

\* _batch_users: the batches of the enrolled users.
BatchUsers == Grouper(UsersEnrolledIn(enrolled), chunk_size, fillvalue)

\* The property accesses of n success rows.
RECURSIVE AccessForRows(_, _)
AccessForRows(s, n) == IF n = 0 THEN s ELSE AccessForRows(AccessForRow(s), n - 1)

\* One step of the _batched_rows generator, driven by izip(*batched_rows) in
\* _compile: the next batch of users goes through _rows_for_users. A filler in
\* the batch has no id or username, and the row built from it raises.
BatchedRowsNext ==
    /\ run = "course" /\ pc = "compiling"
    /\ next_batch <= Len(BatchUsers)
    /\ LET users == BatchUsers[next_batch]
       IN \E outs \in [1..Len(users) -> Outcomes] :
            LET results == [k \in 1..Len(users) |->
                              GradeResult(users[k], outs[k],
                                          config.all_graded_subsections_by_type)]
                graded == Len(SelectSeq(results, LAMBDA r : r.has_grade))
                s == AccessForRows([context |-> context, calls |-> calls], graded)
                rows == RowsForUsers(results, s.context)
            IN IF \E k \in 1..Len(users) : users[k] = fillvalue
               THEN /\ pc' = "failed"
                    /\ UNCHANGED <<context, calls, ga_reads, next_batch, batched_rows, outcomes>>
               ELSE /\ pc' = pc
                    /\ context' = s.context
                    /\ calls' = s.calls
                    /\ ga_reads' = IF graded > 0
                                   THEN ga_reads \cup {s.context.graded_assignments}
                                   ELSE ga_reads
                    /\ next_batch' = next_batch + 1
                    /\ batched_rows' = Append(batched_rows,
                                              <<rows.success_rows, rows.error_rows>>)
                    /\ outcomes' = outcomes \o outs
    /\ UNCHANGED <<run, config, enrolled, clock, task_progress, statuses, success_headers, success_rows, error_rows, uploads, n_rows, n_error_rows>>

Min(S) == CHOOSE x \in S : \A y \in S : x <= y

\* izip(*seqs): the i-th tuple holds the i-th item of every sequence; no
\* sequences, no tuples.
Izip(seqs) ==
    IF seqs = <<>> THEN <<>>
    ELSE [i \in 1..Min({Len(seqs[b]) : b \in 1..Len(seqs)}) |->
            [b \in 1..Len(seqs) |-> seqs[b][i]]]

\* _compile once the generator is exhausted: unpacking izip's result into
\* (success_rows, error_rows) raises ValueError unless it holds two tuples.
Compile ==
    /\ run = "course" /\ pc = "compiling"
    /\ next_batch > Len(BatchUsers)
    /\ LET zipped == Izip(batched_rows)
       IN IF Len(zipped) # 2
          THEN /\ pc' = "failed"
               /\ UNCHANGED <<success_rows, error_rows, task_progress>>
          ELSE /\ pc' = "compiled"
               /\ success_rows' = Flatten(zipped[1])
               /\ error_rows' = Flatten(zipped[2])
               /\ task_progress' =
                    [task_progress EXCEPT
                        !.succeeded = Len(Flatten(zipped[1])),
                        !.failed = Len(Flatten(zipped[2])),
                        !.attempted = Len(Flatten(zipped[1])) + Len(Flatten(zipped[2])),
                        !.total = Num(Len(Flatten(zipped[1])) + Len(Flatten(zipped[2])))]
    /\ UNCHANGED <<run, config, enrolled, clock, context, calls, ga_reads, statuses, success_headers, next_batch, batched_rows, outcomes, uploads, n_rows, n_error_rows>>

\* context.update_status(u'Uploading grades')
AnnounceUploading ==
    /\ run = "course" /\ pc = "compiled"
    /\ UpdateStatus("Uploading grades")
    /\ pc' = "uploading"
    /\ UNCHANGED <<run, config, enrolled, clock, context, calls, ga_reads, task_progress, success_headers, next_batch, batched_rows, outcomes, success_rows, error_rows, uploads, n_rows, n_error_rows>>

\* One call of upload_csv_to_report_store(rows, csv_name, course_id, timestamp).
UploadCall(rows, csv_name, course_id, timestamp) ==
    [rows |-> rows, csv_name |-> csv_name, course_id |-> course_id,
     timestamp |-> timestamp]

\* The cells of a header row.
HeaderRow(headers) == [i \in 1..Len(headers) |-> Str(headers[i])]

\* _upload without the test on the number of error rows.
Upload_AlwaysErrors ==
    /\ run = "course" /\ pc = "uploading"
    /\ LET date == clock
       IN uploads' = uploads
            \o <<UploadCall(<<HeaderRow(success_headers)>> \o success_rows,
                            "grade_report", context.course_id, date)>>
            \o <<UploadCall(<<HeaderRow(ErrorHeaders)>> \o error_rows,
                            "grade_report_err", context.course_id, date)>>
    /\ clock' = clock + 1
    /\ pc' = "uploaded"
    /\ UNCHANGED <<run, config, enrolled, context, calls, ga_reads, task_progress, statuses, success_headers, next_batch, batched_rows, outcomes, success_rows, error_rows, n_rows, n_error_rows>>

\* _upload: the success table, then the error table when it has rows.
Upload ==
    /\ run = "course" /\ pc = "uploading"
    /\ LET date == clock
       IN uploads' = uploads
            \o <<UploadCall(<<HeaderRow(success_headers)>> \o success_rows,
                            "grade_report", context.course_id, date)>>
            \o (IF Len(error_rows) > 0
                THEN <<UploadCall(<<HeaderRow(ErrorHeaders)>> \o error_rows,
                                  "grade_report_err", context.course_id, date)>>
                ELSE <<>>)
    /\ clock' = clock + 1
    /\ pc' = "uploaded"
    /\ UNCHANGED <<run, config, enrolled, context, calls, ga_reads, task_progress, statuses, success_headers, next_batch, batched_rows, outcomes, success_rows, error_rows, n_rows, n_error_rows>>

\* return context.update_status(u'Completed grades')
AnnounceCompleted ==
    /\ run = "course" /\ pc = "uploaded"
    /\ UpdateStatus("Completed grades")
    /\ pc' = "done"
    /\ UNCHANGED <<run, config, enrolled, clock, context, calls, ga_reads, task_progress, success_headers, next_batch, batched_rows, outcomes, success_rows, error_rows, uploads, n_rows, n_error_rows>>

\* ---------------------------------------------------------------- ProblemGradeReport

\* The table rows of ProblemGradeReport and ProblemResponses are kept as row
\* counts; an uploaded table is shown as that many empty rows.
BlankRows(n) == [i \in 1..n |-> <<>>]

\* generate up to the loop: the progress object with the enrolment count as
\* total, the header rows, the grading context and the course.
ProblemStart ==
    /\ run = "problem" /\ pc = "start"
    /\ task_progress' = TaskProgress(Num(enrolled))
    /\ calls' = [calls EXCEPT !.grading_context_for_course = @ + 1,
                              !.get_course_by_id = @ + 1]
    /\ n_rows' = 1
    /\ n_error_rows' = 1
    /\ clock' = clock + 1
    /\ pc' = "grading"
    /\ UNCHANGED <<run, config, enrolled, context, ga_reads, statuses, success_headers, next_batch, batched_rows, outcomes, success_rows, error_rows, uploads>>

\* The loop body sending the periodic snapshot before succeeded is incremented.
ProblemStudent_EarlyUpdate ==
    /\ run = "problem" /\ pc = "grading"
    /\ task_progress.attempted < enrolled
    /\ \E graded \in BOOLEAN :
        LET attempted == task_progress.attempted + 1
        IN IF ~graded
           THEN /\ task_progress' = [task_progress EXCEPT !.attempted = attempted,
                                                          !.failed = @ + 1]
                /\ n_error_rows' = n_error_rows + 1
                /\ UNCHANGED <<n_rows, statuses>>
           ELSE /\ task_progress' = [task_progress EXCEPT !.attempted = attempted,
                                                          !.succeeded = @ + 1]
                /\ n_rows' = n_rows + 1
                /\ statuses' = IF attempted % status_interval = 0
                               THEN Append(statuses, Snapshot([task_progress EXCEPT !.attempted = attempted], "Calculating Grades"))
                               ELSE statuses
                /\ UNCHANGED n_error_rows
    /\ UNCHANGED <<run, pc, config, enrolled, clock, context, calls, ga_reads, success_headers, next_batch, batched_rows, outcomes, success_rows, error_rows, uploads>>

\* One iteration of the loop over CourseGradeFactory().iter(enrolled_students):
\* the student is graded or not.
ProblemStudent ==
    /\ run = "problem" /\ pc = "grading"
    /\ task_progress.attempted < enrolled
    /\ \E graded \in BOOLEAN :
        LET attempted == task_progress.attempted + 1
        IN IF ~graded
           THEN /\ task_progress' = [task_progress EXCEPT !.attempted = attempted,
                                                          !.failed = @ + 1]
                /\ n_error_rows' = n_error_rows + 1
                /\ UNCHANGED <<n_rows, statuses>>
           ELSE /\ task_progress' = [task_progress EXCEPT !.attempted = attempted,
                                                          !.succeeded = @ + 1]
                /\ n_rows' = n_rows + 1
                /\ statuses' = IF attempted % status_interval = 0
                               THEN Append(statuses, Snapshot(task_progress', "Calculating Grades"))
                               ELSE statuses
                /\ UNCHANGED n_error_rows
    /\ UNCHANGED <<run, pc, config, enrolled, clock, context, calls, ga_reads, success_headers, next_batch, batched_rows, outcomes, success_rows, error_rows, uploads>>

\* After the loop: the uploads, stamped with the start_date read at the start
\* (clock - 1), and the final update_task_state.
ProblemFinish ==
    /\ run = "problem" /\ pc = "grading"
    /\ task_progress.attempted = enrolled
    /\ uploads' = uploads
        \o (IF n_rows > 1
            THEN <<UploadCall(BlankRows(n_rows), "problem_grade_report", config.course_id, clock - 1)>>
            ELSE <<>>)
        \o (IF n_error_rows > 1
            THEN <<UploadCall(BlankRows(n_error_rows), "problem_grade_report_err", config.course_id, clock - 1)>>
            ELSE <<>>)
    /\ statuses' = Append(statuses, Snapshot(task_progress, "Uploading CSV"))
    /\ pc' = "done"
    /\ UNCHANGED <<run, config, enrolled, clock, context, calls, ga_reads, task_progress, success_headers, next_batch, batched_rows, outcomes, success_rows, error_rows, n_rows, n_error_rows>>

\* ---------------------------------------------------------------- ProblemResponses

\* generate up to the first update_task_state.
ResponsesStart ==
    /\ run = "responses" /\ pc = "start"
    /\ task_progress' = TaskProgress(Num(num_reports))
    /\ statuses' = Append(statuses, Snapshot(task_progress', "Calculating students answers to problem"))
    /\ clock' = clock + 1
    /\ pc' = "calculating"
    /\ UNCHANGED <<run, config, enrolled, context, calls, ga_reads, success_headers, next_batch, batched_rows, outcomes, success_rows, error_rows, uploads, n_rows, n_error_rows>>

\* The result table of list_problem_responses (one row per response), the
\* counters set from it, and the second update_task_state.
ResponsesCompute ==
    /\ run = "responses" /\ pc = "calculating"
    /\ task_progress' = [task_progress EXCEPT
                            !.attempted = enrolled,
                            !.succeeded = enrolled,
                            !.skipped = task_progress.total.v - enrolled]
    /\ n_rows' = enrolled + 1
    /\ statuses' = Append(statuses, Snapshot(task_progress', "Uploading CSV"))
    /\ pc' = "computed"
    /\ UNCHANGED <<run, config, enrolled, clock, context, calls, ga_reads, success_headers, next_batch, batched_rows, outcomes, success_rows, error_rows, uploads, n_error_rows>>

\* The upload, stamped with the start_date read at the start (clock - 1), and
\* the final update_task_state.
ResponsesUpload ==
    /\ run = "responses" /\ pc = "computed"
    /\ uploads' = Append(uploads, UploadCall(BlankRows(n_rows), "student_state_from_problem", config.course_id, clock - 1))
    /\ statuses' = Append(statuses, Snapshot(task_progress, "Uploading CSV"))
    /\ pc' = "done"
    /\ UNCHANGED <<run, config, enrolled, clock, context, calls, ga_reads, task_progress, success_headers, next_batch, batched_rows, outcomes, success_rows, error_rows, n_rows, n_error_rows>>

\* ---------------------------------------------------------------- specification

Next ==
    \/ Starting
    \/ AnnounceCompiling
    \/ BatchedRowsNext
    \/ Compile
    \/ AnnounceUploading
    \/ Upload
    \/ AnnounceCompleted
    \/ ProblemStart
    \/ ProblemStudent
    \/ ProblemFinish
    \/ ResponsesStart
    \/ ResponsesCompute
    \/ ResponsesUpload

Spec == Init /\ [][Next]_vars

\* ---------------------------------------------------------------- claims

\* The run is a CourseGradeReport run that has gone through _compile.
Compiled == run = "course" /\ pc \in {"compiled", "uploading", "uploaded", "done"}

\* The success rows compiled so far, batch by batch.
CompiledSuccessRows == Flatten([b \in 1..Len(batched_rows) |-> batched_rows[b][1]])

\* C1: every success row built by _rows_for_users has exactly as many values as
\* the header list of _success_headers, for every course configuration, categories
\* without subsections included.
C1_RowsAlignWithHeaders ==
    run = "course" =>
        \A k \in 1..Len(CompiledSuccessRows) :
            Len(CompiledSuccessRows[k]) = Len(success_headers)

\* The indices of the rows whose first cell is the given user id.
RowsOfUser(rows, id) == {k \in 1..Len(rows) : rows[k][1] = Num(id)}

\* C2: once a CourseGradeReport run has compiled its rows, every enrolled user has
\* exactly one row over both tables: a user without a grade has one error row
\* [id, username, error message] and no success row, every other user has one
\* success row and no error row, and no row comes from a batch filler.
C2_EachEntityInOneTable ==
    Compiled =>
        /\ Len(outcomes) = enrolled
        /\ Len(success_rows) + Len(error_rows) = enrolled
        /\ \A i \in 1..enrolled :
            IF outcomes[i] = "error"
            THEN /\ RowsOfUser(success_rows, i) = {}
                 /\ Cardinality(RowsOfUser(error_rows, i)) = 1
                 /\ \A k \in RowsOfUser(error_rows, i) :
                        error_rows[k] = <<Num(i), Str(User(i).username),
                                          Str("Cannot grade " \o User(i).username)>>
            ELSE /\ RowsOfUser(error_rows, i) = {}
                 /\ Cardinality(RowsOfUser(success_rows, i)) = 1
        /\ RowsOfUser(success_rows, fillvalue.id) = {}
        /\ RowsOfUser(error_rows, fillvalue.id) = {}

\* C2 witness: a finished run in which one user failed and another was graded.
C2_Witness ==
    /\ run = "course" /\ pc = "done"
    /\ \E i, j \in 1..Len(outcomes) : outcomes[i] = "error" /\ outcomes[j] # "error"

\* C3: every progress snapshot a CourseGradeReport or ProblemGradeReport run sends
\* to the status sink has attempted = succeeded + failed, and after _compile the
\* counters are: succeeded the number of success rows, failed the number of error
\* rows, total and attempted their sum.
C3_AttemptedIsSucceededPlusFailed ==
    /\ run \in {"course", "problem"} =>
        \A k \in 1..Len(statuses) :
            statuses[k].attempted = statuses[k].succeeded + statuses[k].failed
    /\ Compiled =>
        /\ task_progress.succeeded = Len(success_rows)
        /\ task_progress.failed = Len(error_rows)
        /\ task_progress.attempted = task_progress.succeeded + task_progress.failed
        /\ task_progress.total = Num(task_progress.attempted)

\* C3 witness: a ProblemGradeReport run sent a snapshot from inside its loop
\* after some student had failed and some had been graded.
C3_Witness ==
    /\ run = "problem"
    /\ \E k \in 1..Len(statuses) :
        /\ statuses[k].step = "Calculating Grades"
        /\ statuses[k].failed > 0
        /\ statuses[k].succeeded > 0

\* C4: within a run no progress counter (attempted, succeeded, failed, skipped)
\* ever takes a value lower than one it held before.
C4_CountersNeverDecrease ==
    [][/\ task_progress'.attempted >= task_progress.attempted
       /\ task_progress'.succeeded >= task_progress.succeeded
       /\ task_progress'.failed >= task_progress.failed
       /\ task_progress'.skipped >= task_progress.skipped]_vars

\* The upload calls of a kind.
UploadsOf(csv_name) == {k \in 1..Len(uploads) : uploads[k].csv_name = csv_name}

\* C5: a CourseGradeReport run uploads nothing before its upload stage, and once
\* the stage is over the sink has been called exactly once with 'grade_report'
\* (the header row, then the success rows), once with 'grade_report_err' when
\* there are error rows and never when there are none, all calls with the same
\* course id and timestamp.
C5_UploadsOnceAndErrorsIfAny ==
    run = "course" =>
        IF pc \in {"uploaded", "done"}
        THEN /\ Cardinality(UploadsOf("grade_report")) = 1
             /\ \A k \in UploadsOf("grade_report") :
                    uploads[k].rows = <<HeaderRow(success_headers)>> \o success_rows
             /\ Cardinality(UploadsOf("grade_report_err")) =
                    (IF Len(error_rows) > 0 THEN 1 ELSE 0)
             /\ Len(uploads) = Cardinality(UploadsOf("grade_report"))
                                + Cardinality(UploadsOf("grade_report_err"))
             /\ \A k, l \in 1..Len(uploads) :
                    /\ uploads[k].course_id = uploads[l].course_id
                    /\ uploads[k].timestamp = uploads[l].timestamp
             /\ \A k \in 1..Len(uploads) : uploads[k].course_id = config.course_id
        ELSE uploads = <<>>

\* C5 witness: the upload stage of a run with error rows is over.
C5_Witness ==
    /\ run = "course" /\ pc = "uploaded"
    /\ Len(error_rows) > 0 /\ Len(success_rows) > 0
    /\ Len(uploads) = 2

\* The stages of a CourseGradeReport run, in order.
Stages == <<"Starting grades", "Compiling grades", "Uploading grades", "Completed grades">>

\* C6: the stages a CourseGradeReport run has announced are the first ones of
\* Starting, Compiling, Uploading, Completed, in that order and each once; rows are
\* compiled only after 'Compiling grades', uploads happen only after 'Uploading
\* grades', 'Completed grades' only after the uploads, and a finished run has
\* announced all four.
C6_StagesInOrder ==
    run = "course" =>
        /\ Len(statuses) <= Len(Stages)
        /\ \A k \in 1..Len(statuses) : statuses[k].step = Stages[k]
        /\ batched_rows # <<>> => Len(statuses) >= 2
        /\ uploads # <<>> => Len(statuses) >= 3
        /\ Len(statuses) = 4 => UploadsOf("grade_report") # {}
        /\ Len(statuses) >= 3 => Compiled
        /\ pc = "done" <=> Len(statuses) = 4

\* C6 witness: a finished run that compiled rows and uploaded both tables.
C6_Witness ==
    /\ run = "course" /\ pc = "done"
    /\ Len(batched_rows) >= 2 /\ Len(uploads) = 2

\* The grade columns the claim counts for the categories from the i-th on: one
\* for a category with one sub-item (or none), N + 1 for one with N > 1.
RECURSIVE GradeColumns(_, _)
GradeColumns(by_type, i) ==
    IF i > Len(by_type) THEN 0
    ELSE (IF Len(by_type[i].value) > 1 THEN Len(by_type[i].value) + 1 ELSE 1)
         + GradeColumns(by_type, i + 1)

\* The columns that do not depend on the graded categories, the overall 'Grade'
\* column left out: identity, cohort, experiments, team, enrollment, certificate.
FixedColumns ==
    3 + (IF config.is_cohorted THEN 1 ELSE 0)
      + Len(GetSplitUserPartitions(config.course.user_partitions))
      + (IF config.course.teams_enabled THEN 1 ELSE 0) + 2 + 3

\* The run is a CourseGradeReport run that has derived its headers.
HeadersDerived == run = "course" /\ pc # "start"

\* C7 as stated: the success header has 3 + cohort + experiments + teams + 2 + 3
\* + grade-columns columns.
C7_HeaderCountAsStated ==
    HeadersDerived =>
        Len(success_headers) =
            FixedColumns + GradeColumns(config.all_graded_subsections_by_type, 1)

\* C7 amended: the success header has one column more than stated, the overall
\* 'Grade' column, which stands fourth whatever the graded categories are: 4 +
\* cohort + experiments + teams + 2 + 3 + grade-columns.
C7_HeaderCount ==
    HeadersDerived =>
        /\ Len(success_headers) =
            1 + FixedColumns + GradeColumns(config.all_graded_subsections_by_type, 1)
        /\ success_headers[4] = "Grade"
        /\ config.all_graded_subsections_by_type = <<>> =>
            Len(success_headers) = 1 + FixedColumns

\* C7 witness: headers derived for a cohorted course with teams, an experiment,
\* a category of one sub-item and a category of two.
C7_Witness ==
    /\ HeadersDerived
    /\ config.is_cohorted /\ config.course.teams_enabled
    /\ Len(GetSplitUserPartitions(config.course.user_partitions)) = 1
    /\ \E c, d \in 1..Len(config.all_graded_subsections_by_type) :
        /\ Len(config.all_graded_subsections_by_type[c].value) = 1
        /\ Len(config.all_graded_subsections_by_type[d].value) = 2
    /\ Len(success_headers) = 16

\* The headers the claim gives the c-th category of the configuration.
ExpectedHeaders(by_type, c) ==
    LET name == by_type[c].key
        infos == by_type[c].value
    IN IF Len(infos) > 1
       THEN [i \in 1..Len(infos) |->
                name \o " " \o ToString(i) \o ": " \o infos[i].subsection_block.display_name]
            \o <<name \o " (Avg)">>
       ELSE <<name>>

\* C8: the derived schema has one entry per category in input order, whose
\* separate_subsection_avg_headers is true iff the category has more than one
\* sub-item; the grade headers are, category by category, '<category> <i>:
\* <sub-item name>' for i = 1..N followed by '<category> (Avg)' when N > 1, and
\* '<category>' alone otherwise; deriving them again from the configuration
\* gives the list the run holds.
C8_SchemaHeaders ==
    HeadersDerived =>
        LET by_type == config.all_graded_subsections_by_type
            schema == context.graded_assignments
            expected == Flatten([c \in 1..Len(by_type) |-> ExpectedHeaders(by_type, c)])
        IN /\ Len(schema) = Len(by_type)
           /\ \A c \in 1..Len(by_type) :
                /\ schema[c].key = by_type[c].key
                /\ schema[c].value.separate_subsection_avg_headers
                    <=> Len(by_type[c].value) > 1
           /\ SubSeq(success_headers, 5, 4 + Len(expected)) = expected
           /\ GradesHeader(GradedAssignments(by_type)) = expected

\* C8 witness: headers derived for 'Homework' with two sub-items followed by
\* 'Exam' with one.
C8_Witness ==
    /\ HeadersDerived
    /\ SubSeq(success_headers, 5, 8) =
        <<"Homework 1: H1", "Homework 2: H2", "Homework (Avg)", "Exam">>

\* The rows a run must end with: per user in enrolment order, the graded ones and
\* the failed ones.
GradedUsers == {i \in 1..Len(outcomes) : outcomes[i] # "error"}
FailedUsers == {i \in 1..Len(outcomes) : outcomes[i] = "error"}

\* C9: a CourseGradeReport run over any population, the empty one included, ends
\* only by announcing 'Completed grades', with final counters equal to the number
\* of users processed, graded and failed, and with the rows of every batch in
\* batch order.
C9_RunCompletes ==
    (run = "course" /\ pc \in {"done", "failed"}) =>
        /\ pc = "done"
        /\ statuses[Len(statuses)].step = "Completed grades"
        /\ statuses[Len(statuses)].attempted = enrolled
        /\ statuses[Len(statuses)].succeeded = Cardinality(GradedUsers)
        /\ statuses[Len(statuses)].failed = Cardinality(FailedUsers)
        /\ success_rows = CompiledSuccessRows
        /\ error_rows = Flatten([b \in 1..Len(batched_rows) |-> batched_rows[b][2]])

\* The collaborators behind the lazy properties.
Collaborators == {"get_course_by_id", "get_split_user_partitions", "course_teams_enabled", "is_course_cohorted", "grading_context_for_course"}

\* C10: in a CourseGradeReport run every lazy property calls its collaborator at
\* most once, and all header and row derivations read one graded_assignments
\* value, the memoized one.
C10_LazyOnce ==
    run = "course" =>
        /\ \A c \in Collaborators : calls[c] <= 1
        /\ Cardinality(ga_reads) <= 1
        /\ ga_reads \subseteq {context.graded_assignments}

\* C10 witness: a run that derived the headers and the rows of two graded users
\* in two batches, each collaborator called once.
C10_Witness ==
    /\ run = "course" /\ pc = "done"
    /\ Len(batched_rows) = 2 /\ Len(success_rows) = 2
    /\ \A c \in Collaborators : calls[c] = 1
    /\ Cardinality(ga_reads) = 1

\* The columns of the success header that carry the given header text.
ColumnsOf(header) == {k \in 1..Len(success_headers) : success_headers[k] = header}

\* The category percentage the grade breakdown of a course grade holds under a
\* category name, None when it holds none.
BreakdownPercent(course_grade, name) ==
    IF name \in DOMAIN course_grade.grader_result.grade_breakdown
    THEN Num(course_grade.grader_result.grade_breakdown[name].percent)
    ELSE None

\* The value of a compiled success row under the average column of the c-th
\* category is the category percentage of the row's user, or None.
AverageUnderHeader(row, c) ==
    LET by_type == config.all_graded_subsections_by_type
        course_grade == CourseGradeOf(outcomes[row[1].v], by_type)
    IN \A k \in ColumnsOf(context.graded_assignments[c].value.average_header) :
        /\ k <= Len(row)
        /\ row[k] = BreakdownPercent(course_grade, by_type[c].key)

\* C11: in every success row the value under a category's average column, for a
\* category of several sub-items ('<category> (Avg)') and for a category of one
\* sub-item ('<category>', its only column) alike, is the category percentage
\* of the grade breakdown looked up by category name, None when the breakdown
\* has no entry of that name.
C11_AverageUnderAverageHeader ==
    run = "course" =>
        \A r \in 1..Len(CompiledSuccessRows) :
            \A c \in 1..Len(config.all_graded_subsections_by_type) :
                Len(config.all_graded_subsections_by_type[c].value) >= 1 =>
                    AverageUnderHeader(CompiledSuccessRows[r], c)

====
